---- MODULE Spec2Model ----
(***************************************************************************)
(* A model of the russet window shell: the Kernel of src/lib.rs (selection, *)
(* filename bar, four window modes, the wrap-aware edit buffer and the     *)
(* calls into the file store) and the host loop of src/main.rs (the        *)
(* LAST_KEY slot shared by the keyboard interrupt and cpu_loop).           *)
(*                                                                         *)
(* Arrays are functions over 0..n-1, as the code indexes them.  Bytes and  *)
(* chars are their integer codes.  The sizes of the screen, of a file and  *)
(* of a file name are scaled down; every scaled size is a named bound.     *)
(***************************************************************************)
EXTENDS Integers, Sequences, FiniteSets, TLC

VARIABLES
    selected,        \* Kernel.selected: KSelection
    filebar_buffer,  \* Kernel.filebar_buffer: TypingBuffer<MAX_FILENAME_BYTES>
    window_modes,    \* Kernel.window_modes: [KWindowMode; 4]
    fs,              \* Kernel.fs: the file store
    panicked,        \* the shell has aborted (unwrap / assert! / todo!)
    LAST_KEY,        \* main.rs static LAST_KEY: AtomicCell<Option<DecodedKey>>
    TICKS,           \* main.rs static TICKS: AtomicCell<usize>
    last_tick,       \* cpu_loop's local last_tick
    pc,              \* cpu_loop's position
    taken,           \* cpu_loop's local `key`, bound by `if let Some(key)`
    nkeys,           \* number of key events the host has delivered so far
    probe            \* an EditingState under test and the results read from it

vars == <<selected, filebar_buffer, window_modes, fs, panicked,
          LAST_KEY, TICKS, last_tick, pc, taken, nkeys, probe>>

kernel_vars == <<selected, filebar_buffer, window_modes, fs, panicked>>
loop_vars == <<LAST_KEY, TICKS, last_tick, pc, taken>>

----------------------------------------------------------------------------
(* Sizes.  The program's values are in the comments; the model's are small. *)

\* lib.rs:29
NUM_WINDOWS == 4
\* lib.rs:25 (33 on the 80-column screen)
WINDOW_WIDTH == 2
\* lib.rs:26 (10 on the 25-row screen)
WINDOW_HEIGHT == 2
\* lib.rs:40 (16384)
MAX_FILE_BYTES == 4
\* lib.rs:41 (30)
MAX_FILES_STORED == 5
\* lib.rs:42 (10)
MAX_FILENAME_BYTES == 2
\* lib.rs:44
PRACTICAL_FILE_BUFFER_SIZE == MAX_FILE_BYTES - 1

\* The longest sequence of key events the host delivers to the kernel.
MaxKeys == 6
\* The number of keyboard interrupts and of timer interrupts in the loop model.
MaxInterrupts == 3
MaxTicks == 2
\* The capacity of the buffers and the widths the line scans are probed with.
ProbeCapacity == 6
ProbeMaxWidth == 3

\* Character codes.
NUL == 0
BACKSPACE == 8
NEWLINE == 10
ESCAPE == 27
SPACE == 32
CHAR_a == 97
CHAR_c == 99
CHAR_e == 101
CHAR_h == 104
CHAR_n == 110
CHAR_p == 112
CHAR_r == 114

KWindows == {"F1", "F2", "F3", "F4"}

RawKeys == {"F1", "F2", "F3", "F4", "F5", "F6", "F7", "F8",
            "ArrowUp", "ArrowDown", "ArrowLeft", "ArrowRight", "Home"}
UnicodeKeys == {CHAR_e, CHAR_r, NEWLINE, BACKSPACE, ESCAPE}

\* pc_keyboard::DecodedKey
RawKey(code) == [tag |-> "RawKey", code |-> code]
Unicode(c) == [tag |-> "Unicode", c |-> c]
DecodedKey == {RawKey(code) : code \in RawKeys} \cup {Unicode(c) : c \in UnicodeKeys}

\* `c as u8`
as_u8(c) == c % 256

\* [0u8; n]
zeros(n) == [i \in 0..(n - 1) |-> NUL]

\* A byte array of n bytes holding the sequence s, then zeros.
array_of(s, n) == [i \in 0..(n - 1) |-> IF i < Len(s) THEN s[i + 1] ELSE NUL]

\* &a[0..n] as a sequence
slice(a, n) == [i \in 1..n |-> a[i - 1]]

\* The whole array as a sequence (&a).
whole(a) == slice(a, Cardinality(DOMAIN a))

\* str::from_utf8 succeeds on ASCII; every byte the model produces is ASCII.
from_utf8_ok(s) == \A i \in 1..Len(s) : s[i] < 128

\* vga_buffer::is_drawable
is_drawable(c) == SPACE <= c /\ c <= 126

----------------------------------------------------------------------------
(* usize helpers *)

\* usize::saturating_sub
saturating_sub(a, b) == IF a >= b THEN a - b ELSE 0

\* usize::saturating_add_signed (the model's values are far below usize::MAX)
saturating_add_signed(a, delta) == IF a + delta < 0 THEN 0 ELSE a + delta

----------------------------------------------------------------------------
(* DirectoryState *)

\* A move that accepts the position one past the last entry.
DirectoryState_move_cursor_inclusive(dir_state, delta, file_count) ==
    LET new_pos == dir_state.cursor + delta IN
    IF new_pos >= 0 /\ new_pos <= file_count
    THEN [dir_state EXCEPT !.cursor = new_pos]
    ELSE dir_state

DirectoryState_move_cursor(dir_state, delta, file_count) ==
    LET new_pos == dir_state.cursor + delta IN
    IF new_pos >= 0 /\ new_pos < file_count
    THEN [dir_state EXCEPT !.cursor = new_pos]
    ELSE dir_state

----------------------------------------------------------------------------
(* EditingState *)

\* A backspace that moves the cursor back and leaves len as it was.
EditingState_backspace_keeping_len(es) ==
    IF es.cursor > 0
    THEN [es EXCEPT !.cursor = es.cursor - 1,
                    !.buffer = [es.buffer EXCEPT ![es.cursor - 1] = NUL]]
    ELSE es

\* A backspace that leaves the removed byte in the buffer.
EditingState_backspace_stale(es) ==
    IF es.cursor > 0
    THEN [es EXCEPT !.cursor = es.cursor - 1,
                    !.len = es.len - 1]
    ELSE es

EditingState_backspace(es) ==
    IF es.cursor > 0
    THEN [es EXCEPT !.cursor = es.cursor - 1,
                    !.buffer = [es.buffer EXCEPT ![es.cursor - 1] = NUL],
                    !.len = es.len - 1]
    ELSE es

\* An insertion that is still accepted with the cursor at capacity.
EditingState_type_char_inclusive(es, c) ==
    IF es.cursor <= PRACTICAL_FILE_BUFFER_SIZE
    THEN [es EXCEPT !.buffer = [es.buffer EXCEPT ![es.cursor] = as_u8(c)],
                    !.cursor = es.cursor + 1,
                    !.len = es.len + 1]
    ELSE es

EditingState_type_char(es, c) ==
    IF es.cursor < PRACTICAL_FILE_BUFFER_SIZE
    THEN [es EXCEPT !.buffer = [es.buffer EXCEPT ![es.cursor] = as_u8(c)],
                    !.cursor = es.cursor + 1,
                    !.len = es.len + 1]
    ELSE es

\* The loop of line_count: one iteration per call, from (count, cursor, len).
RECURSIVE line_count_loop(_, _, _, _, _)
line_count_loop(buffer, line_width, count, cursor, len) ==
    IF cursor \notin DOMAIN buffer THEN count
    ELSE IF buffer[cursor] = NUL THEN count
    ELSE IF buffer[cursor] = NEWLINE
         THEN line_count_loop(buffer, line_width, count + 1, cursor + 2, 0)
    ELSE IF len = line_width
         THEN line_count_loop(buffer, line_width, count + 1, cursor + 1, 0)
    ELSE line_count_loop(buffer, line_width, count, cursor + 1, len + 1)

line_count(es, line_width) == line_count_loop(es.buffer, line_width, 1, 0, 0)

None == [tag |-> "None"]
Some(v) == [tag |-> "Some", v |-> v]

\* The loop of read_line; returns <<line_buf, current_line>> at the break.
RECURSIVE read_line_loop(_, _, _, _, _, _)
read_line_loop(buffer, line, line_buf, current_line, line_start, line_len) ==
    IF current_line > line THEN <<line_buf, current_line>>
    ELSE IF (line_start + line_len) \notin DOMAIN buffer
         THEN <<line_buf, current_line>>
    ELSE LET this_byte == buffer[line_start + line_len] IN
         IF this_byte = NEWLINE
         THEN read_line_loop(buffer, line, line_buf, current_line + 1,
                             line_start + line_len + 1, 0)
         ELSE IF line_len = WINDOW_WIDTH
         THEN read_line_loop(buffer, line, line_buf, current_line + 1,
                             line_start + line_len, 0)
         ELSE read_line_loop(buffer, line,
                             IF current_line = line
                             THEN [line_buf EXCEPT ![line_len] = this_byte]
                             ELSE line_buf,
                             current_line, line_start, line_len + 1)

read_line(es, line) ==
    LET r == read_line_loop(es.buffer, line,
                            [i \in 0..(WINDOW_WIDTH - 1) |-> SPACE], 0, 0, 0) IN
    IF r[2] > line THEN Some(r[1]) ELSE None

----------------------------------------------------------------------------
(* KWindowMode *)

KWindowMode_directory(cursor) == [tag |-> "Directory", cursor |-> cursor]

\* An EditingState that keeps the length where the directory index belongs.
KWindowMode_editing_misplaced(filename, buffer, len, directory_index) ==
    LET state == [tag |-> "Editing", filename |-> filename, buffer |-> buffer,
                  len |-> len, cursor |-> len, scroll |-> 0,
                  directory_index |-> len] IN
    [state EXCEPT !.scroll =
        saturating_sub(line_count(state, WINDOW_WIDTH), WINDOW_HEIGHT)]

KWindowMode_editing(filename, buffer, len, directory_index) ==
    LET state == [tag |-> "Editing", filename |-> filename, buffer |-> buffer,
                  len |-> len, cursor |-> len, scroll |-> 0,
                  directory_index |-> directory_index] IN
    [state EXCEPT !.scroll =
        saturating_sub(line_count(state, WINDOW_WIDTH), WINDOW_HEIGHT)]

\* The interpreter is opaque: the model keeps the program it was built from.
KWindowMode_running(program) == [tag |-> "Running", program |-> program]

----------------------------------------------------------------------------
(* TypingBuffer<MAX_FILENAME_BYTES> *)

TypingBuffer_type_char(tb, c) ==
    IF tb.cursor < MAX_FILENAME_BYTES
    THEN [tb EXCEPT !.buffer = [tb.buffer EXCEPT ![tb.cursor] = as_u8(c)],
                    !.cursor = tb.cursor + 1]
    ELSE tb

TypingBuffer_backspace(tb) ==
    IF tb.cursor > 0
    THEN [tb EXCEPT !.buffer = [tb.buffer EXCEPT ![tb.cursor - 1] = NUL],
                    !.cursor = tb.cursor - 1]
    ELSE tb

TypingBuffer_clear(tb) == [buffer |-> zeros(MAX_FILENAME_BYTES), cursor |-> 0]

TypingBuffer_get_bytes(tb) == <<tb.cursor, tb.buffer>>

----------------------------------------------------------------------------
(* The file store (csci320_vsfs::FileSystem), as the shell sees it: an     *)
(* ordered directory of fixed-width names, each with its bytes.  A file    *)
(* descriptor is the file's directory index; the shell closes every file   *)
(* it opens before the handler returns, so no table of open files is kept. *)

Ok(v) == [tag |-> "Ok", v |-> v]
Err(e) == [tag |-> "Err", e |-> e]

\* The fixed-width directory entry of a name given as a string.
name_entry(name) == array_of(name, MAX_FILENAME_BYTES)

file_index(files, name) ==
    IF \E i \in 1..Len(files) : files[i].name = name_entry(name)
    THEN Some((CHOOSE i \in 1..Len(files) : files[i].name = name_entry(name)) - 1)
    ELSE None

\* open_create: create-or-truncate.  Returns the store and the descriptor.
fs_open_create(files, name) ==
    IF Len(name) > MAX_FILENAME_BYTES THEN Err("InvalidName")
    ELSE LET found == file_index(files, name) IN
         IF found.tag = "Some"
         THEN Ok([files |-> [files EXCEPT ![found.v + 1].data = <<>>], fd |-> found.v])
         ELSE IF Len(files) >= MAX_FILES_STORED THEN Err("TableFull")
         ELSE Ok([files |-> Append(files, [name |-> name_entry(name), data |-> <<>>]),
                  fd |-> Len(files)])

fs_open_read(files, name) ==
    LET found == file_index(files, name) IN
    IF found.tag = "Some" THEN Ok(found.v) ELSE Err("NotFound")

\* read into a buffer of `capacity` bytes: the bytes read and their count.
fs_read(files, fd, buffer) ==
    LET data == files[fd + 1].data
        capacity == Cardinality(DOMAIN buffer)
        n == IF Len(data) < capacity THEN Len(data) ELSE capacity IN
    Ok([buffer |-> [i \in DOMAIN buffer |-> IF i < n THEN data[i + 1] ELSE buffer[i]],
        count |-> n])

fs_write(files, fd, bytes) ==
    IF Len(bytes) > MAX_FILE_BYTES THEN Err("TooLarge")
    ELSE Ok([files EXCEPT ![fd + 1].data = bytes])

fs_list_directory(files) ==
    Ok(<<Len(files), [i \in 0..(Len(files) - 1) |-> files[i + 1].name]>>)

\* initial_files: the programs the disk is seeded with, scaled to the
\* model's sizes (the program seeds six, "hello" .. "pi"): one line, two
\* lines, a line that wraps, and a text that starts with an empty line.
SeedFiles ==
    << [name |-> <<CHAR_h>>, data |-> <<CHAR_p>>],
       [name |-> <<CHAR_n>>, data |-> <<CHAR_p, NEWLINE, CHAR_p>>],
       [name |-> <<CHAR_a>>, data |-> <<CHAR_p, CHAR_p, CHAR_p>>],
       [name |-> <<CHAR_c>>, data |-> <<NEWLINE, CHAR_p>>] >>

RECURSIVE initial_files_from(_, _)
initial_files_from(disk, i) ==
    IF i > Len(SeedFiles) THEN disk
    ELSE LET created == fs_open_create(disk, SeedFiles[i].name).v
             written == fs_write(created.files, created.fd, SeedFiles[i].data).v IN
         initial_files_from(written, i + 1)

initial_files == initial_files_from(<<>>, 1)

----------------------------------------------------------------------------
(* Kernel.  A kernel value is a record of the five fields of the state;    *)
(* every method is an operator from a kernel value to the one it leaves.   *)
(* A panic (a failed unwrap or assert!, a todo!) leaves the fields as they *)
(* were at the panic and sets `panicked`.                                  *)

\* KSelection
Window(window) == [tag |-> "Window", window |-> window]
Filebar == [tag |-> "Filebar"]
KSelection == {Window(w) : w \in KWindows} \cup {Filebar}

panic(K) == [K EXCEPT !.panicked = TRUE]

Kernel_new ==
    [selected |-> Window("F1"),
     filebar_buffer |-> [buffer |-> zeros(MAX_FILENAME_BYTES), cursor |-> 0],
     window_modes |-> [i \in 0..(NUM_WINDOWS - 1) |-> KWindowMode_directory(0)],
     fs |-> initial_files,
     panicked |-> FALSE]

window_index(window) ==
    CASE window = "F1" -> 0
      [] window = "F2" -> 1
      [] window = "F3" -> 2
      [] window = "F4" -> 3

get_window_mode(K, window) == K.window_modes[window_index(window)]

\* A store whose F4 arm names the slot of window F3.
set_window_mode_slipped(K, window, mode) ==
    [K EXCEPT !.window_modes[IF window = "F4" THEN window_index("F3")
                             ELSE window_index(window)] = mode]

set_window_mode(K, window, mode) ==
    [K EXCEPT !.window_modes[window_index(window)] = mode]

\* A create that clears the typed name only once the file exists.
try_create_file_keeping(K) ==
    LET bytes == TypingBuffer_get_bytes(K.filebar_buffer)
        name_len == bytes[1]
        name_bytes == bytes[2]
        K1 == [K EXCEPT !.filebar_buffer = TypingBuffer_clear(K.filebar_buffer)]
        str == slice(name_bytes, name_len) IN
    IF from_utf8_ok(str)
    THEN LET new_file == fs_open_create(K.fs, str) IN
         IF new_file.tag = "Err" THEN panic(K)
         ELSE [K1 EXCEPT !.fs = new_file.v.files]
    ELSE K

try_create_file(K) ==
    LET bytes == TypingBuffer_get_bytes(K.filebar_buffer)
        name_len == bytes[1]
        name_bytes == bytes[2]
        K1 == [K EXCEPT !.filebar_buffer = TypingBuffer_clear(K.filebar_buffer)]
        str == slice(name_bytes, name_len) IN
    IF from_utf8_ok(str)
    THEN LET new_file == fs_open_create(K1.fs, str) IN
         IF new_file.tag = "Err" THEN panic(K1)
         ELSE [K1 EXCEPT !.fs = new_file.v.files]
    ELSE K1

\* A cursor move bounded by the table's capacity, not by the files it holds.
move_dir_cursor_capacity(K, delta) ==
    IF K.selected.tag = "Window"
    THEN LET window == K.selected.window
             mode == get_window_mode(K, window) IN
         IF mode.tag = "Directory"
         THEN LET file_count == MAX_FILES_STORED IN
              set_window_mode(K, window,
                              DirectoryState_move_cursor(mode, delta, file_count))
         ELSE K
    ELSE K

move_dir_cursor(K, delta) ==
    IF K.selected.tag = "Window"
    THEN LET window == K.selected.window
             mode == get_window_mode(K, window) IN
         IF mode.tag = "Directory"
         THEN LET file_count == fs_list_directory(K.fs).v[1] IN
              set_window_mode(K, window,
                              DirectoryState_move_cursor(mode, delta, file_count))
         ELSE K
    ELSE K

\* A scroll whose clamp lets the offset rest on line_count itself.
scroll_edit_text_loose(K, delta) ==
    IF K.selected.tag = "Window"
    THEN LET window == K.selected.window
             mode == get_window_mode(K, window) IN
         IF mode.tag = "Editing"
         THEN LET scrolled == [mode EXCEPT !.scroll =
                                  saturating_add_signed(mode.scroll, delta)]
                  count == line_count(scrolled, WINDOW_WIDTH) IN
              set_window_mode(K, window,
                  IF scrolled.scroll > count
                  THEN [scrolled EXCEPT !.scroll = count - 1]
                  ELSE scrolled)
         ELSE K
    ELSE K

scroll_edit_text(K, delta) ==
    IF K.selected.tag = "Window"
    THEN LET window == K.selected.window
             mode == get_window_mode(K, window) IN
         IF mode.tag = "Editing"
         THEN LET scrolled == [mode EXCEPT !.scroll =
                                  saturating_add_signed(mode.scroll, delta)]
                  count == line_count(scrolled, WINDOW_WIDTH) IN
              set_window_mode(K, window,
                  IF scrolled.scroll >= count
                  THEN [scrolled EXCEPT !.scroll = count - 1]
                  ELSE scrolled)
         ELSE K
    ELSE K

\* An 'e' that takes the buffer's capacity for the file's size.
switch_to_edit_mode_whole(K, window) ==
    LET mode == get_window_mode(K, window) IN
    IF mode.tag = "Directory"
    THEN LET chosen_file == mode.cursor
             listing == fs_list_directory(K.fs).v
             file_count == listing[1]
             directory == listing[2] IN
         IF ~(chosen_file < file_count) THEN panic(K)
         ELSE LET filename_str == whole(directory[chosen_file]) IN
              IF ~from_utf8_ok(filename_str) THEN panic(K)
              ELSE LET file == fs_open_read(K.fs, filename_str) IN
                   IF file.tag = "Err" THEN panic(K)
                   ELSE LET got == fs_read(K.fs, file.v,
                                           zeros(PRACTICAL_FILE_BUFFER_SIZE)).v IN
                        set_window_mode(K, window,
                            KWindowMode_editing(directory[chosen_file], got.buffer,
                                                PRACTICAL_FILE_BUFFER_SIZE, chosen_file))
    ELSE K

switch_to_edit_mode(K, window) ==
    LET mode == get_window_mode(K, window) IN
    IF mode.tag = "Directory"
    THEN LET chosen_file == mode.cursor
             listing == fs_list_directory(K.fs).v
             file_count == listing[1]
             directory == listing[2] IN
         IF ~(chosen_file < file_count) THEN panic(K)
         ELSE LET filename_str == whole(directory[chosen_file]) IN
              IF ~from_utf8_ok(filename_str) THEN panic(K)
              ELSE LET file == fs_open_read(K.fs, filename_str) IN
                   IF file.tag = "Err" THEN panic(K)
                   ELSE LET got == fs_read(K.fs, file.v,
                                           zeros(PRACTICAL_FILE_BUFFER_SIZE)).v IN
                        set_window_mode(K, window,
                            KWindowMode_editing(directory[chosen_file], got.buffer,
                                                got.count, chosen_file))
    ELSE K

\* A write-back of the whole array, zero padding included.
written_back_padded(es) == whole(es.buffer)

\* `&edit_state.buffer[0..edit_state.len]`: the bytes F6 writes back.
written_back(es) == slice(es.buffer, es.len)

\* An F6 that also sends a window that is not editing back to the top of the
\* directory.
switch_to_directory_mode_resetting(K, window) ==
    LET mode == get_window_mode(K, window) IN
    IF mode.tag = "Editing"
    THEN LET filename_str == whole(mode.filename) IN
         IF ~from_utf8_ok(filename_str) THEN panic(K)
         ELSE LET file == fs_open_create(K.fs, filename_str) IN
              IF file.tag = "Err" THEN panic(K)
              ELSE LET written == fs_write(file.v.files, file.v.fd,
                                           written_back(mode)) IN
                   IF written.tag = "Err" THEN panic([K EXCEPT !.fs = file.v.files])
                   ELSE set_window_mode([K EXCEPT !.fs = written.v], window,
                                        KWindowMode_directory(mode.directory_index))
    ELSE set_window_mode(K, window, KWindowMode_directory(0))

switch_to_directory_mode(K, window) ==
    LET mode == get_window_mode(K, window) IN
    IF mode.tag = "Editing"
    THEN LET filename_str == whole(mode.filename) IN
         IF ~from_utf8_ok(filename_str) THEN panic(K)
         ELSE LET file == fs_open_create(K.fs, filename_str) IN
              IF file.tag = "Err" THEN panic(K)
              ELSE LET written == fs_write(file.v.files, file.v.fd,
                                           written_back(mode)) IN
                   IF written.tag = "Err" THEN panic([K EXCEPT !.fs = file.v.files])
                   ELSE set_window_mode([K EXCEPT !.fs = written.v], window,
                                        KWindowMode_directory(mode.directory_index))
    ELSE K

\* An 'r' that opens the program as F6 opens its file, with open_create.
switch_to_run_mode_creating(K, window) ==
    LET mode == get_window_mode(K, window) IN
    IF mode.tag = "Directory"
    THEN LET chosen_file == mode.cursor
             listing == fs_list_directory(K.fs).v
             file_count == listing[1]
             directory == listing[2] IN
         IF ~(chosen_file < file_count) THEN panic(K)
         ELSE LET filename_str == whole(directory[chosen_file]) IN
              IF ~from_utf8_ok(filename_str) THEN panic(K)
              ELSE LET file == fs_open_create(K.fs, filename_str) IN
                   IF file.tag = "Err" THEN panic(K)
                   ELSE LET got == fs_read(file.v.files, file.v.fd,
                                           zeros(PRACTICAL_FILE_BUFFER_SIZE)).v
                            program == slice(got.buffer, got.count) IN
                        IF ~from_utf8_ok(program) THEN panic(K)
                        ELSE set_window_mode([K EXCEPT !.fs = file.v.files], window,
                                             KWindowMode_running(program))
    ELSE K

switch_to_run_mode(K, window) ==
    LET mode == get_window_mode(K, window) IN
    IF mode.tag = "Directory"
    THEN LET chosen_file == mode.cursor
             listing == fs_list_directory(K.fs).v
             file_count == listing[1]
             directory == listing[2] IN
         IF ~(chosen_file < file_count) THEN panic(K)
         ELSE LET filename_str == whole(directory[chosen_file]) IN
              IF ~from_utf8_ok(filename_str) THEN panic(K)
              ELSE LET file == fs_open_read(K.fs, filename_str) IN
                   IF file.tag = "Err" THEN panic(K)
                   ELSE LET got == fs_read(K.fs, file.v,
                                           zeros(PRACTICAL_FILE_BUFFER_SIZE)).v
                            program == slice(got.buffer, got.count) IN
                        IF ~from_utf8_ok(program) THEN panic(K)
                        ELSE set_window_mode(K, window, KWindowMode_running(program))
    ELSE K

\* draw_window: what it plots is not kept; whether it returns is.
draw_window_ok(K, window) ==
    LET mode == get_window_mode(K, window) IN
    CASE mode.tag = "Directory" -> TRUE
      [] mode.tag = "Editing" ->
            \A line \in 0..(WINDOW_HEIGHT - 1) :
                LET line_bytes == read_line(mode, mode.scroll + line) IN
                line_bytes.tag = "Some" => from_utf8_ok(whole(line_bytes.v))
      [] mode.tag = "Running" -> FALSE

draw(K) ==
    IF \A window \in KWindows : draw_window_ok(K, window) THEN K ELSE panic(K)

\* A dispatch in which F4 selects the filename bar as F5 does.
handle_raw_misrouted(K, code) ==
    CASE code = "F1" -> [K EXCEPT !.selected = Window("F1")]
      [] code = "F2" -> [K EXCEPT !.selected = Window("F2")]
      [] code = "F3" -> [K EXCEPT !.selected = Window("F3")]
      [] code = "F4" -> [K EXCEPT !.selected = Filebar]
      [] code = "F5" -> [K EXCEPT !.selected = Filebar]
      [] code = "F6" -> IF K.selected.tag = "Window"
                        THEN switch_to_directory_mode(K, K.selected.window)
                        ELSE K
      [] code = "F7" -> scroll_edit_text(K, -1)
      [] code = "F8" -> scroll_edit_text(K, 1)
      [] code = "ArrowUp" -> move_dir_cursor(K, -3)
      [] code = "ArrowDown" -> move_dir_cursor(K, 3)
      [] code = "ArrowLeft" -> move_dir_cursor(K, -1)
      [] code = "ArrowRight" -> move_dir_cursor(K, 1)
      [] OTHER -> K

handle_raw(K, code) ==
    CASE code = "F1" -> [K EXCEPT !.selected = Window("F1")]
      [] code = "F2" -> [K EXCEPT !.selected = Window("F2")]
      [] code = "F3" -> [K EXCEPT !.selected = Window("F3")]
      [] code = "F4" -> [K EXCEPT !.selected = Window("F4")]
      [] code = "F5" -> [K EXCEPT !.selected = Filebar]
      [] code = "F6" -> IF K.selected.tag = "Window"
                        THEN switch_to_directory_mode(K, K.selected.window)
                        ELSE K
      [] code = "F7" -> scroll_edit_text(K, -1)
      [] code = "F8" -> scroll_edit_text(K, 1)
      [] code = "ArrowUp" -> move_dir_cursor(K, -3)
      [] code = "ArrowDown" -> move_dir_cursor(K, 3)
      [] code = "ArrowLeft" -> move_dir_cursor(K, -1)
      [] code = "ArrowRight" -> move_dir_cursor(K, 1)
      [] OTHER -> K

handle_unicode(K, c) ==
    IF K.selected.tag = "Filebar"
    THEN CASE c = BACKSPACE ->
                [K EXCEPT !.filebar_buffer = TypingBuffer_backspace(K.filebar_buffer)]
           [] c = NEWLINE -> try_create_file(K)
           [] c \notin {BACKSPACE, NEWLINE} /\ is_drawable(c) ->
                [K EXCEPT !.filebar_buffer = TypingBuffer_type_char(K.filebar_buffer, c)]
           [] OTHER -> K
    ELSE LET window == K.selected.window
             mode == get_window_mode(K, window) IN
         CASE mode.tag = "Directory" ->
                (CASE c = CHAR_e -> switch_to_edit_mode(K, window)
                   [] c = CHAR_r -> switch_to_run_mode(K, window)
                   [] OTHER -> K)
           [] mode.tag = "Editing" ->
                set_window_mode(K, window,
                    CASE c = NEWLINE -> EditingState_type_char(mode, NEWLINE)
                      [] c # NEWLINE /\ is_drawable(c) -> EditingState_type_char(mode, c)
                      [] c # NEWLINE /\ ~is_drawable(c) /\ c = BACKSPACE ->
                            EditingState_backspace(mode)
                      [] OTHER -> mode)
           [] mode.tag = "Running" -> panic(K)

Kernel_key(K, key) ==
    LET handled == CASE key.tag = "RawKey" -> handle_raw(K, key.code)
                     [] key.tag = "Unicode" -> handle_unicode(K, key.c) IN
    IF handled.panicked THEN handled ELSE draw(handled)

----------------------------------------------------------------------------
(* The state and the steps. *)

\* The kernel value held in the variables.
This ==
    [selected |-> selected, filebar_buffer |-> filebar_buffer,
     window_modes |-> window_modes, fs |-> fs, panicked |-> panicked]

\* The variables take the fields of K.
Becomes(K) ==
    /\ selected' = K.selected
    /\ filebar_buffer' = K.filebar_buffer
    /\ window_modes' = K.window_modes
    /\ fs' = K.fs
    /\ panicked' = K.panicked

\* No EditingState is being probed.
NoProbe == [tag |-> "None"]

\* cpu_loop has built the kernel and drawn it once; the slot is empty.
Init ==
    /\ selected = Kernel_new.selected
    /\ filebar_buffer = Kernel_new.filebar_buffer
    /\ window_modes = Kernel_new.window_modes
    /\ fs = Kernel_new.fs
    /\ panicked = draw(Kernel_new).panicked
    /\ LAST_KEY = None
    /\ TICKS = 0
    /\ last_tick = 0
    /\ pc = "load"
    /\ taken = None
    /\ nkeys = 0
    /\ probe = NoProbe

(* The host delivers one more key event, cpu_loop passes it to Kernel::key. *)
Delivered ==
    /\ ~panicked
    /\ nkeys < MaxKeys
    /\ nkeys' = nkeys + 1
    /\ UNCHANGED <<loop_vars, probe>>

SelectKeys == {RawKey(code) : code \in {"F1", "F2", "F3", "F4", "F5"}}
ScrollKeys == {RawKey("F7"), RawKey("F8")}
ArrowKeys == {RawKey(code) : code \in {"ArrowUp", "ArrowDown", "ArrowLeft", "ArrowRight"}}
OtherRawKeys == {RawKey(code) : code \in
                    RawKeys \ {"F1", "F2", "F3", "F4", "F5", "F6", "F7", "F8",
                               "ArrowUp", "ArrowDown", "ArrowLeft", "ArrowRight"}}

\* F1..F5: handle_raw sets the selection.
key_select ==
    \E k \in SelectKeys :
        /\ Delivered
        /\ Becomes(Kernel_key(This, k))

\* F6: back to the directory.
key_F6 ==
    /\ Delivered
    /\ Becomes(Kernel_key(This, RawKey("F6")))

\* F7, F8: scroll_edit_text.
key_scroll ==
    \E k \in ScrollKeys :
        /\ Delivered
        /\ Becomes(Kernel_key(This, k))

\* The arrows: move_dir_cursor.
key_arrow ==
    \E k \in ArrowKeys :
        /\ Delivered
        /\ Becomes(Kernel_key(This, k))

\* Any other raw key.
key_other_raw ==
    \E k \in OtherRawKeys :
        /\ Delivered
        /\ Becomes(Kernel_key(This, k))

\* A character: handle_unicode.
key_unicode ==
    \E c \in UnicodeKeys :
        /\ Delivered
        /\ Becomes(Kernel_key(This, Unicode(c)))

Next ==
    \/ key_select
    \/ key_F6
    \/ key_scroll
    \/ key_arrow
    \/ key_other_raw
    \/ key_unicode

Spec == Init /\ [][Next]_vars

----------------------------------------------------------------------------
(* src/main.rs: the host's interrupts and cpu_loop.  Each access to an     *)
(* AtomicCell is one step; the interrupts may run between any two steps of *)
(* the loop.  A key in the slot carries the ordinal of the interrupt that  *)
(* wrote it, so that two presses of one key are told apart.                *)

\* fn key: the keyboard interrupt.
key(k) ==
    /\ nkeys < MaxInterrupts
    /\ nkeys' = nkeys + 1
    /\ LAST_KEY' = Some([key |-> k, seq |-> nkeys + 1])
    /\ UNCHANGED <<kernel_vars, TICKS, last_tick, pc, taken, probe>>

key_interrupt == \E k \in DecodedKey : key(k)

\* fn tick: the timer interrupt (fetch_add wraps at usize::MAX, which the
\* bounded count of ticks stays far below).
tick ==
    /\ TICKS < MaxTicks
    /\ TICKS' = TICKS + 1
    /\ UNCHANGED <<kernel_vars, LAST_KEY, last_tick, pc, taken, nkeys, probe>>

\* `if let Some(key) = LAST_KEY.load()`
cpu_loop_load ==
    /\ ~panicked
    /\ pc = "load"
    /\ IF LAST_KEY.tag = "Some"
       THEN taken' = LAST_KEY /\ pc' = "store"
       ELSE taken' = taken /\ pc' = "ticks"
    /\ UNCHANGED <<kernel_vars, LAST_KEY, TICKS, last_tick, nkeys, probe>>

\* `LAST_KEY.store(None)`
cpu_loop_store ==
    /\ ~panicked
    /\ pc = "store"
    /\ LAST_KEY' = None
    /\ pc' = "key"
    /\ UNCHANGED <<kernel_vars, TICKS, last_tick, taken, nkeys, probe>>

\* `kernel.key(key)`
cpu_loop_key ==
    /\ ~panicked
    /\ pc = "key"
    /\ Becomes(Kernel_key(This, taken.v.key))
    /\ taken' = None
    /\ pc' = "ticks"
    /\ UNCHANGED <<LAST_KEY, TICKS, last_tick, nkeys, probe>>

\* The rest of the loop body: the tick check (draw_proc_status and
\* run_one_instruction have empty bodies).
cpu_loop_ticks ==
    /\ ~panicked
    /\ pc = "ticks"
    /\ LET current_tick == TICKS IN
       last_tick' = IF current_tick > last_tick THEN current_tick ELSE last_tick
    /\ pc' = "load"
    /\ UNCHANGED <<kernel_vars, LAST_KEY, TICKS, taken, nkeys, probe>>

NextLoop ==
    \/ key_interrupt
    \/ tick
    \/ cpu_loop_load
    \/ cpu_loop_store
    \/ cpu_loop_key
    \/ cpu_loop_ticks

SpecLoop == Init /\ [][NextLoop]_vars

----------------------------------------------------------------------------
(* The line scans of EditingState, probed on their own: an EditingState    *)
(* holding some text, as switch_to_edit_mode builds it, on which           *)
(* line_count and read_line are then called.                               *)

ProbeBytes == {CHAR_e, NEWLINE}

RECURSIVE texts_up_to(_)
texts_up_to(n) ==
    IF n = 0 THEN {<<>>}
    ELSE LET shorter == texts_up_to(n - 1) IN
         shorter \cup {Append(t, b) : t \in {u \in shorter : Len(u) = n - 1},
                                      b \in ProbeBytes}

ProbeTexts == texts_up_to(ProbeCapacity)
ProbeLines == 0..ProbeCapacity

\* The EditingState of a file holding `text`, in a buffer of ProbeCapacity bytes.
editing_of(text) ==
    KWindowMode_editing(zeros(MAX_FILENAME_BYTES), array_of(text, ProbeCapacity),
                        Len(text), 0)

InitProbe ==
    /\ selected = Kernel_new.selected
    /\ filebar_buffer = Kernel_new.filebar_buffer
    /\ window_modes = Kernel_new.window_modes
    /\ fs = Kernel_new.fs
    /\ panicked = FALSE
    /\ LAST_KEY = None
    /\ TICKS = 0
    /\ last_tick = 0
    /\ pc = "load"
    /\ taken = None
    /\ nkeys = 0
    /\ \E text \in ProbeTexts, width \in 1..ProbeMaxWidth :
          probe = [tag |-> "Probe", text |-> text, state |-> editing_of(text),
                   width |-> width, count |-> None, line |-> None, read |-> None]

\* state.line_count(width)
probe_line_count ==
    /\ probe.tag = "Probe"
    /\ probe' = [probe EXCEPT !.count = Some(line_count(probe.state, probe.width))]
    /\ UNCHANGED <<kernel_vars, loop_vars, nkeys>>

\* state.read_line(line)
probe_read_line ==
    /\ probe.tag = "Probe"
    /\ \E line \in ProbeLines :
          probe' = [probe EXCEPT !.line = Some(line),
                                 !.read = Some(read_line(probe.state, line))]
    /\ UNCHANGED <<kernel_vars, loop_vars, nkeys>>

NextProbe ==
    \/ probe_line_count
    \/ probe_read_line

SpecProbe == InitProbe /\ [][NextProbe]_vars

----------------------------------------------------------------------------
(* The claims. *)

\* C1: across every interleaving of the keyboard interrupt with cpu_loop, the
\* loop's clear of LAST_KEY removes only the key the loop has just read (and
\* goes on to dispatch): no key that arrived after the read is cleared
\* undispatched.
C1_ClearTakesOnlyTheKeyRead ==
    [][(pc = "store" /\ pc' = "key") => LAST_KEY = taken]_vars

\* The focused window, when a window is focused and the shell is running.
FocusedIn(tag) ==
    /\ ~panicked
    /\ selected.tag = "Window"
    /\ get_window_mode(This, selected.window).tag = tag

Focused == get_window_mode(This, selected.window)

\* C2: write-back round trip.  From any state whose focused window edits a
\* file f with bytes B of length L, F6 and then 'e' on that window (the cursor
\* F6 restores being on f's directory entry) leave the window editing with
\* length L and buffer[0..L] = B.
C2_WriteBackRoundTrip ==
    FocusedIn("Editing") =>
        LET before == Focused
            K1 == Kernel_key(This, RawKey("F6"))
            back == get_window_mode(K1, selected.window)
            K2 == Kernel_key(K1, Unicode(CHAR_e))
            again == get_window_mode(K2, selected.window) IN
        /\ ~K1.panicked
        /\ back.tag = "Directory"
        /\ (fs_list_directory(K1.fs).v[2][back.cursor] = before.filename =>
               /\ ~K2.panicked
               /\ again.tag = "Editing"
               /\ again.len = before.len
               /\ slice(again.buffer, before.len) = slice(before.buffer, before.len))

\* A window is editing again the text it wrote back: its buffer is what the
\* file now holds, and that is no longer what the disk was seeded with.
C2_Witness ==
    /\ FocusedIn("Editing")
    /\ Focused.len > 0
    /\ Focused.directory_index < Len(SeedFiles)
    /\ fs[Focused.directory_index + 1].name = Focused.filename
    /\ fs[Focused.directory_index + 1].data = slice(Focused.buffer, Focused.len)
    /\ fs[Focused.directory_index + 1].data # SeedFiles[Focused.directory_index + 1].data

\* C3: round trip of the directory cursor.  Step by step: 'e' on a window in
\* Directory{cursor = k}, k in [0, file_count), records k as the origin; no
\* event changes the origin of a window that stays in Editing; an Editing
\* window leaves that mode only to Directory, with cursor = the origin.
C3_DirectoryCursorRoundTrip ==
    [][\A i \in 0..(NUM_WINDOWS - 1) :
          LET before == window_modes[i]
              after == window_modes'[i] IN
          /\ (before.tag = "Directory" /\ after.tag = "Editing") =>
                /\ before.cursor \in 0..(Len(fs) - 1)
                /\ after.directory_index = before.cursor
          /\ (before.tag = "Editing" /\ after.tag = "Editing") =>
                after.directory_index = before.directory_index
          /\ (before.tag = "Editing" /\ after.tag # "Editing") =>
                /\ after.tag = "Directory"
                /\ after.cursor = before.directory_index]_vars

\* Four keys in, window F1 is back in Directory mode on entry 1 and file 1 has
\* been rewritten: the keys were ArrowRight, 'e', an edit and F6.
C3_Witness ==
    /\ ~panicked
    /\ nkeys = 4
    /\ selected = Window("F1")
    /\ window_modes[0] = KWindowMode_directory(1)
    /\ fs[2].data # SeedFiles[2].data

\* The delta each arrow key stands for: one entry left or right, one row of
\* three entries up or down.
ArrowDelta(code) ==
    CASE code = "ArrowUp" -> -3
      [] code = "ArrowDown" -> 3
      [] code = "ArrowLeft" -> -1
      [] code = "ArrowRight" -> 1

\* C4: for every arrow key pressed on a focused Directory window, the cursor
\* afterwards lies in [0, file_count), and it is unchanged when cursor + delta
\* falls outside [0, file_count); the shell does not abort.
C4_CursorStaysInDirectory ==
    FocusedIn("Directory") =>
        \A k \in ArrowKeys :
            LET delta == ArrowDelta(k.code)
                K2 == Kernel_key(This, k)
                after == get_window_mode(K2, selected.window)
                file_count == Len(K2.fs) IN
            /\ ~K2.panicked
            /\ after.tag = "Directory"
            /\ after.cursor \in 0..(file_count - 1)
            /\ ((Focused.cursor + delta) \notin 0..(file_count - 1) =>
                   after.cursor = Focused.cursor)

\* The focused Directory window has been moved a row down, onto the last
\* entry: every move further down or right falls outside the directory.
C4_Witness ==
    /\ FocusedIn("Directory")
    /\ Focused.cursor >= 3
    /\ Focused.cursor = Len(fs) - 1

\* C5: after F7 or F8 on a focused Editing window the scroll offset lies in
\* [0, line_count(W) - 1]; F7 at offset 0 leaves 0 and F8 at the last line
\* leaves line_count(W) - 1.
C5_ScrollStaysInText ==
    FocusedIn("Editing") =>
        \A k \in ScrollKeys :
            LET K2 == Kernel_key(This, k)
                after == get_window_mode(K2, selected.window)
                last == line_count(after, WINDOW_WIDTH) - 1 IN
            /\ ~K2.panicked
            /\ after.tag = "Editing"
            /\ after.scroll \in 0..last
            /\ (k.code = "F7" /\ Focused.scroll = 0) => after.scroll = 0
            /\ (k.code = "F8" /\ Focused.scroll = last) => after.scroll = last

\* Within three keys a focused Editing window rests on the last line of a text
\* of several lines: it was opened at offset 0 and F8 took it there.
C5_Witness ==
    /\ FocusedIn("Editing")
    /\ nkeys <= 3
    /\ Focused.scroll >= 1
    /\ Focused.scroll = line_count(Focused, WINDOW_WIDTH) - 1

\* The characters that reach type_char: the drawable ones and, in an Editing
\* window, newline.
TypedInWindow == {c \in UnicodeKeys : c = NEWLINE \/ is_drawable(c)}
TypedInFilebar == {c \in UnicodeKeys : c # NEWLINE /\ is_drawable(c)}

\* C6: typing at capacity is a silent no-op.  With the focused Editing window's
\* cursor at the buffer's capacity, and with the filebar focused and its cursor
\* at MAX_FILENAME_BYTES, a typed character leaves the whole kernel state as it
\* was: the bytes, cursor and length, and the shell not aborted.
C6_TypingAtCapacityIsNoOp ==
    /\ (FocusedIn("Editing") /\ Focused.cursor = PRACTICAL_FILE_BUFFER_SIZE) =>
           \A c \in TypedInWindow : Kernel_key(This, Unicode(c)) = This
    /\ (~panicked /\ selected = Filebar
        /\ filebar_buffer.cursor = MAX_FILENAME_BYTES) =>
           \A c \in TypedInFilebar : Kernel_key(This, Unicode(c)) = This

\* Both buffers are full: the filename bar was typed full, and the focused
\* Editing window's cursor stands at capacity.
C6_Witness ==
    /\ FocusedIn("Editing")
    /\ Focused.cursor = PRACTICAL_FILE_BUFFER_SIZE
    /\ Focused.cursor = Focused.len
    /\ filebar_buffer.cursor = MAX_FILENAME_BYTES

\* C10: exactly one focus target is selected: one of the four windows or the
\* filebar.  The focus starts on window F1; F1..F4 set it to their window and
\* F5 to the filebar.
C10_ExactlyOneFocus ==
    /\ Cardinality({target \in KSelection : target = selected}) = 1
    /\ (nkeys = 0 => selected = Window("F1"))
    /\ (~panicked =>
           /\ \A w \in KWindows : Kernel_key(This, RawKey(w)).selected = Window(w)
           /\ Kernel_key(This, RawKey("F5")).selected = Filebar)

\* F5 has moved the focus from window F1 to the filebar.
C10_Witness ==
    /\ ~panicked
    /\ nkeys = 1
    /\ selected = Filebar

----------------------------------------------------------------------------
(* The line rule of the specification, against which the scans are held:   *)
(* a newline ends a line and is passed over; a line that has reached the   *)
(* wrap width ends there and the next byte starts the next line.           *)

CeilDiv(n, d) == (n + d - 1) \div d

RECURSIVE NewlinesIn(_)
NewlinesIn(text) ==
    IF text = <<>> THEN 0
    ELSE (IF Head(text) = NEWLINE THEN 1 ELSE 0) + NewlinesIn(Tail(text))

RECURSIVE LinesOf(_, _, _)
LinesOf(rest, current, width) ==
    IF rest = <<>> THEN <<current>>
    ELSE IF Head(rest) = NEWLINE THEN <<current>> \o LinesOf(Tail(rest), <<>>, width)
    ELSE IF Len(current) = width THEN <<current>> \o LinesOf(rest, <<>>, width)
    ELSE LinesOf(Tail(rest), Append(current, Head(rest)), width)

SpacePadded(line, width) ==
    [i \in 0..(width - 1) |-> IF i < Len(line) THEN line[i + 1] ELSE SPACE]

Counted == probe.tag = "Probe" /\ probe.count.tag = "Some"
LineRead == probe.tag = "Probe" /\ probe.line.tag = "Some"

\* C7: for a text of n >= 1 bytes with no newline and no zero byte, and any
\* wrap width W >= 1, line_count(W) = ceil(n / W).
C7_WrappedLineCount ==
    (/\ Counted
     /\ Len(probe.text) >= 1
     /\ \A i \in 1..Len(probe.text) : probe.text[i] \notin {NEWLINE, NUL})
    => probe.count.v = CeilDiv(Len(probe.text), probe.width)

\* C8: for a text whose newline-separated segments are each shorter than W,
\* line_count(W) = 1 + the number of newline bytes in the text.
C8_NewlineLineCount ==
    (/\ Counted
     /\ \A i \in 1..Len(LinesOf(probe.text, <<>>, Len(probe.text) + 1)) :
           Len(LinesOf(probe.text, <<>>, Len(probe.text) + 1)[i]) < probe.width)
    => probe.count.v = 1 + NewlinesIn(probe.text)

\* C9: for every line n of the text that exists, read_line(n) is that line's
\* bytes followed only by spaces, WINDOW_WIDTH bytes in all.
C9_ReadLineSpacePadded ==
    (/\ LineRead
     /\ probe.line.v < Len(LinesOf(probe.text, <<>>, WINDOW_WIDTH)))
    => probe.read.v =
           Some(SpacePadded(LinesOf(probe.text, <<>>, WINDOW_WIDTH)[probe.line.v + 1],
                            WINDOW_WIDTH))

----------------------------------------------------------------------------
(* Enter in the filename bar. *)

\* The name the filename bar holds, as try_create_file reads it.
TypedName == slice(filebar_buffer.buffer, filebar_buffer.cursor)

FilebarFocused == ~panicked /\ selected = Filebar

\* C11: whenever Enter is handled with the filename bar focused, the filename
\* buffer is left empty (cursor 0, every byte zero), whether the create
\* succeeded or open_create refused the name or found the table full; in the
\* refused cases the buffer is already empty when the unwrap aborts.
C11_EnterEmptiesFilebar ==
    FilebarFocused =>
        LET K2 == Kernel_key(This, Unicode(NEWLINE)) IN
        /\ K2.filebar_buffer.cursor = 0
        /\ K2.filebar_buffer.buffer = zeros(MAX_FILENAME_BYTES)
        /\ K2.selected = Filebar

\* Three keys in, the filebar is focused and empty again and the directory has
\* a fifth file: the keys were F5, a character and Enter.
C11_Witness ==
    /\ FilebarFocused
    /\ nkeys = 3
    /\ filebar_buffer = [buffer |-> zeros(MAX_FILENAME_BYTES), cursor |-> 0]
    /\ Len(fs) = Len(SeedFiles) + 1
    /\ fs[Len(fs)].name # name_entry(<<>>)

\* C12: when open_create fails for an Enter in the filename bar (the name is
\* too long or the file table is full), the attempt is abandoned: the files
\* and the window modes stay as they were and the shell is not aborted.
C12_FailedCreateIsAbandoned ==
    (FilebarFocused /\ fs_open_create(fs, TypedName).tag = "Err") =>
        LET K2 == Kernel_key(This, Unicode(NEWLINE)) IN
        /\ ~K2.panicked
        /\ K2.fs = fs
        /\ K2.window_modes = window_modes

----------------------------------------------------------------------------
(* The mode machine. *)

\* The mode each window is in, without the mode's data.
mode_tags(K) == [i \in 0..(NUM_WINDOWS - 1) |-> K.window_modes[i].tag]

StorageCallFails(k) ==
    /\ selected = Filebar
    /\ k = Unicode(NEWLINE)
    /\ fs_open_create(fs, TypedName).tag = "Err"

\* C14: while every Storage call succeeds, no key event aborts the shell:
\* from every reachable running state, every key whose Storage calls succeed
\* is handled and redrawn without a panic, 'r' on a Directory window included.
C14_NoKeyAborts ==
    ~panicked =>
        \A k \in DecodedKey :
            ~StorageCallFails(k) => ~Kernel_key(This, k).panicked

\* The stored content of the file called `filename`, None when no file is.
stored(files, filename) ==
    LET found == file_index(files, whole(filename)) IN
    IF found.tag = "None" THEN None ELSE Some(files[found.v + 1].data)

\* C15: an Editing window is the sole owner of its file's content.  Across
\* every key event that leaves a window editing file f as it was, the stored
\* content of f is unchanged: no event on another window writes f while the
\* window edits it.
C15_EditingWindowOwnsFile ==
    [][\A i \in 0..(NUM_WINDOWS - 1) :
          (window_modes[i].tag = "Editing" /\ window_modes'[i] = window_modes[i])
          => stored(fs', window_modes[i].filename)
                 = stored(fs, window_modes[i].filename)]_vars

\* C16: 'e' on a focused Directory window whose cursor is on entry k opens
\* that file for editing: the window is Editing with the file's name,
\* buffer[0..len] the file's bytes, len the file's size, the cursor at len,
\* the origin k, and scroll = max(0, line_count(WINDOW_WIDTH) - WINDOW_HEIGHT).
\* The files are not touched and the shell does not abort.
C16_EditOpensFileAtCursor ==
    FocusedIn("Directory") =>
        LET k == Focused.cursor
            K2 == Kernel_key(This, Unicode(CHAR_e))
            after == get_window_mode(K2, selected.window)
            lines == line_count(after, WINDOW_WIDTH) IN
        /\ ~K2.panicked
        /\ K2.fs = fs
        /\ after.tag = "Editing"
        /\ after.filename = fs[k + 1].name
        /\ after.len = Len(fs[k + 1].data)
        /\ slice(after.buffer, after.len) = fs[k + 1].data
        /\ after.cursor = after.len
        /\ after.directory_index = k
        /\ after.scroll = (IF lines > WINDOW_HEIGHT THEN lines - WINDOW_HEIGHT ELSE 0)

\* Five keys in, a window has reopened a file that it had rewritten: the text
\* is the stored one, no longer the seeded one, it has more lines than the
\* window shows, and the window stands scrolled to its end.
C16_Witness ==
    /\ FocusedIn("Editing")
    /\ nkeys = 5
    /\ Focused.directory_index < Len(SeedFiles)
    /\ fs[Focused.directory_index + 1].data = slice(Focused.buffer, Focused.len)
    /\ fs[Focused.directory_index + 1].data # SeedFiles[Focused.directory_index + 1].data
    /\ Focused.cursor = Focused.len
    /\ Focused.scroll >= 1
    /\ Focused.scroll = line_count(Focused, WINDOW_WIDTH) - WINDOW_HEIGHT

\* C17: read_line and line_count count lines by the same rule: for every
\* text and every line number n, read_line(n) returns a line exactly when
\* n < line_count(WINDOW_WIDTH), and no line otherwise.
C17_ReadLineAgreesWithLineCount ==
    LineRead =>
        (probe.read.v.tag = "Some"
            <=> probe.line.v < line_count(probe.state, WINDOW_WIDTH))

\* What the handler of key k makes of kernel K, the redraw left aside.
handled(K, k) ==
    IF k.tag = "RawKey" THEN handle_raw(K, k.code) ELSE handle_unicode(K, k.c)

\* The step is Kernel::key(k) acting on the focused window, window i.
KeyOnWindow(i, k) ==
    /\ selected.tag = "Window"
    /\ window_index(selected.window) = i
    /\ window_modes' = Kernel_key(This, k).window_modes

\* C18: the mode machine has three transitions and Running is final.  In
\* every step a window's mode changes only Directory -> Editing, by 'e' on
\* that window when focused; Editing -> Directory, by F6 on it; or
\* Directory -> Running, by 'r' on it, and that step leaves the files as they
\* were.  A Running window stays as it is in every step, and no key's handler
\* changes it: at the redraw that follows 'r' the shell stops.
C18_ModeMachine ==
    /\ [][\A i \in 0..(NUM_WINDOWS - 1) :
            LET before == window_modes[i]
                after == window_modes'[i] IN
            /\ before.tag # after.tag =>
                  \/ /\ before.tag = "Directory" /\ after.tag = "Editing"
                     /\ KeyOnWindow(i, Unicode(CHAR_e))
                  \/ /\ before.tag = "Editing" /\ after.tag = "Directory"
                     /\ KeyOnWindow(i, RawKey("F6"))
                  \/ /\ before.tag = "Directory" /\ after.tag = "Running"
                     /\ KeyOnWindow(i, Unicode(CHAR_r))
                     /\ fs' = fs
            /\ before.tag = "Running" => after = before]_vars
    /\ [](\A i \in 0..(NUM_WINDOWS - 1) :
            window_modes[i].tag = "Running" =>
                \A k \in DecodedKey :
                    handled([This EXCEPT !.panicked = FALSE], k).window_modes[i]
                        = window_modes[i])

\* All three transitions have been taken: a file has been rewritten by an F6,
\* a window is editing, and another window has entered Running with a stored
\* program.
C18_Witness ==
    /\ fs # initial_files
    /\ \E i, j \in 0..(NUM_WINDOWS - 1) :
          /\ window_modes[i].tag = "Running"
          /\ \E f \in 1..Len(fs) : window_modes[i].program = fs[f].data
          /\ window_modes[j].tag = "Editing"

\* C19: in every reachable state every window in Directory mode, focused or
\* not, has its cursor on a directory entry (cursor < file_count), so the
\* assertion chosen_file < file_count holds in 'e' and in 'r' on the focused
\* window: neither transition aborts.
C19_DirectoryCursorOnAFile ==
    /\ \A w \in KWindows :
           get_window_mode(This, w).tag = "Directory" =>
               get_window_mode(This, w).cursor < fs_list_directory(fs).v[1]
    /\ FocusedIn("Directory") =>
           /\ ~switch_to_edit_mode(This, selected.window).panicked
           /\ ~switch_to_run_mode(This, selected.window).panicked

\* A file has been created through the filebar after the last seeded file was
\* rewritten by an F6, and an unfocused window rests in Directory mode with
\* its cursor on that last seeded entry.
C19_Witness ==
    /\ ~panicked
    /\ Len(fs) > Len(SeedFiles)
    /\ fs[Len(SeedFiles)].data # SeedFiles[Len(SeedFiles)].data
    /\ \E w \in KWindows :
          /\ selected # Window(w)
          /\ get_window_mode(This, w) = KWindowMode_directory(Len(SeedFiles) - 1)

\* C20: in every reachable state every Editing window has its scroll offset
\* on a line of its text, 0 <= scroll <= line_count(WINDOW_WIDTH) - 1,
\* whatever typing, deleting, scrolling and focus changes came before.
C20_ScrollOnALine ==
    \A w \in KWindows :
        LET mode == get_window_mode(This, w) IN
        mode.tag = "Editing" =>
            mode.scroll \in 0..(line_count(mode, WINDOW_WIDTH) - 1)

----------------------------------------------------------------------------
(* The text of an Editing window. *)

EditingWindows == {w \in KWindows : get_window_mode(This, w).tag = "Editing"}

\* C21: in every reachable state every Editing window has cursor = len and
\* 0 <= len <= PRACTICAL_FILE_BUFFER_SIZE.  On the focused one a typed
\* character below capacity is written at index len, the end of the text,
\* and lengthens it by one; backspace at cursor 0 changes nothing, and
\* backspace elsewhere shortens the text by one.
C21_CursorAtEndOfText ==
    /\ \A w \in EditingWindows :
           LET mode == get_window_mode(This, w) IN
           /\ mode.cursor = mode.len
           /\ mode.len \in 0..PRACTICAL_FILE_BUFFER_SIZE
    /\ FocusedIn("Editing") =>
           LET erased == get_window_mode(Kernel_key(This, Unicode(BACKSPACE)),
                                         selected.window) IN
           /\ Focused.cursor = 0 => Kernel_key(This, Unicode(BACKSPACE)) = This
           /\ Focused.cursor > 0 =>
                  /\ erased.len = Focused.len - 1
                  /\ erased.cursor = erased.len
           /\ Focused.cursor < PRACTICAL_FILE_BUFFER_SIZE =>
                  \A c \in TypedInWindow :
                      LET typed == get_window_mode(Kernel_key(This, Unicode(c)),
                                                   selected.window) IN
                      /\ typed.len = Focused.len + 1
                      /\ typed.cursor = typed.len
                      /\ typed.buffer = [Focused.buffer EXCEPT ![Focused.len] = c]

\* The focused window's text has been deleted down to nothing: its cursor and
\* length are 0 while the file it opened still holds bytes.
C21_Witness ==
    /\ FocusedIn("Editing")
    /\ Focused.cursor = 0
    /\ Focused.len = 0
    /\ stored(fs, Focused.filename) # Some(<<>>)
    /\ stored(fs, Focused.filename) # None

\* C22: in every reachable state every Editing window's buffer is zero from
\* index len on and holds no zero byte before it, so a scan that stops at the
\* first zero byte sees the text buffer[0..len] and nothing of deleted text;
\* backspace on the focused window zeroes the byte it removes.
C22_ZeroBeyondLength ==
    /\ \A w \in EditingWindows :
           LET mode == get_window_mode(This, w) IN
           /\ \A i \in DOMAIN mode.buffer : i >= mode.len => mode.buffer[i] = NUL
           /\ \A i \in DOMAIN mode.buffer : i < mode.len => mode.buffer[i] # NUL
           /\ line_count(mode, WINDOW_WIDTH)
                  = line_count([mode EXCEPT !.buffer =
                                   array_of(slice(mode.buffer, mode.len),
                                            PRACTICAL_FILE_BUFFER_SIZE)],
                               WINDOW_WIDTH)
    /\ (FocusedIn("Editing") /\ Focused.len > 0) =>
           LET erased == get_window_mode(Kernel_key(This, Unicode(BACKSPACE)),
                                         selected.window) IN
           erased.buffer = [Focused.buffer EXCEPT ![Focused.len - 1] = NUL]

\* An unfocused window holds a text that was shortened by a backspace: it is a
\* proper prefix of the stored file and the byte after it is zero.
C22_Witness ==
    /\ ~panicked
    /\ \E w \in EditingWindows :
          LET mode == get_window_mode(This, w)
              file == stored(fs, mode.filename) IN
          /\ selected # Window(w)
          /\ mode.len >= 1
          /\ file # None
          /\ Len(file.v) > mode.len
          /\ slice(mode.buffer, mode.len) = SubSeq(file.v, 1, mode.len)
          /\ mode.buffer[mode.len] = NUL

----------------------------------------------------------------------------
(* What a key event leaves alone. *)

\* Window i does not have the focus: the filebar has it, or another window.
Unfocused(i) ==
    \/ selected.tag = "Filebar"
    \/ window_index(selected.window) # i

\* C23: a key event changes the state of at most the focused window.  In
\* every step every window that is unfocused when the key arrives, all four
\* when the filebar has the focus, keeps its mode with its cursor, buffer and
\* scroll; and from every reachable state each of F1..F5 changes nothing but
\* the selection.
C23_OnlyTheFocusedWindowChanges ==
    /\ [][\A i \in 0..(NUM_WINDOWS - 1) :
            Unfocused(i) => window_modes'[i] = window_modes[i]]_vars
    /\ [](~panicked =>
            \A k \in SelectKeys :
                Kernel_key(This, k) =
                    [This EXCEPT !.selected = Kernel_key(This, k).selected])

\* The filebar has the focus and holds typed characters, and two windows rest
\* in Editing mode with different texts: each was edited while the other was
\* unfocused, and both were left as they were by the keys typed since.
C23_Witness ==
    /\ FilebarFocused
    /\ filebar_buffer.cursor > 0
    /\ \E v, w \in EditingWindows :
          /\ get_window_mode(This, v).filename = get_window_mode(This, w).filename
          /\ get_window_mode(This, v).len # get_window_mode(This, w).len

====
